---- MODULE Spec2Model ----
(***************************************************************************)
(* One request to the PDF processing service                               *)
(* (deepwiki-clone/services/pdf-processor/main.py): POST /extract-text or  *)
(* POST /analyze-document.  Text is a sequence of one-character strings,   *)
(* so that str.strip, str.split and the "\n\n" page separator are          *)
(* computed character by character as Python computes them.                *)
(*                                                                         *)
(* Left out of the responses: document_id and analysis_timestamp, which    *)
(* only echo the caller's id or the clock.                                 *)
(***************************************************************************)
EXTENDS Integers, Sequences, FiniteSets, TLC

VARIABLES
    endpoint,          \* the route the request came in on
    filename,          \* file.filename
    pc,                \* the request's position in the handler
    content,           \* the bytes read from the upload (what PdfReader will see)
    temp_file_exists,  \* the NamedTemporaryFile(delete=False) is on disk
    temp_file_path,    \* the local temp_file_path is bound ('temp_file_path' in locals())
    extractor_calls,   \* number of calls of extract_text_from_pdf
    page_num,          \* pages of pdf_reader.pages already visited by the loop
    full_text,         \* the accumulator of extract_text_from_pdf
    sections,          \* the section list of extract_text_from_pdf
    metadata,          \* the metadata dict of extract_text_from_pdf
    response           \* what the caller receives

vars == <<endpoint, filename, pc, content, temp_file_exists, temp_file_path,
          extractor_calls, page_num, full_text, sections, metadata, response>>

----------------------------------------------------------------------------
(* Bounds of the model *)

MaxPages == 2
MaxLen == 2

----------------------------------------------------------------------------
(* Python's str operations, on sequences of characters *)

NL == "\n"

\* the characters str.strip() and str.split() treat as whitespace
Whitespace == {" ", NL}

IsSpace(c) == c \in Whitespace

SetMin(S) == CHOOSE x \in S : \A y \in S : x <= y
SetMax(S) == CHOOSE x \in S : \A y \in S : x >= y

\* s.strip()
Strip(s) ==
    LET keep == {i \in 1..Len(s) : ~IsSpace(s[i])}
    IN  IF keep = {} THEN <<>> ELSE SubSeq(s, SetMin(keep), SetMax(keep))

\* s.split(): the maximal runs of non-whitespace characters, in order
RECURSIVE SplitWsFrom(_, _, _, _)
SplitWsFrom(s, i, cur, acc) ==
    IF i > Len(s)
    THEN IF cur = <<>> THEN acc ELSE Append(acc, cur)
    ELSE IF IsSpace(s[i])
         THEN SplitWsFrom(s, i + 1, <<>>, IF cur = <<>> THEN acc ELSE Append(acc, cur))
         ELSE SplitWsFrom(s, i + 1, Append(cur, s[i]), acc)

SplitWs(s) == SplitWsFrom(s, 1, <<>>, <<>>)

\* s.split(sep): cut at each occurrence of sep, found left to right without overlap;
\* empty pieces are kept
RECURSIVE SplitOnFrom(_, _, _, _, _)
SplitOnFrom(s, sep, i, cur, acc) ==
    IF i > Len(s)
    THEN Append(acc, cur)
    ELSE IF i + Len(sep) - 1 <= Len(s) /\ SubSeq(s, i, i + Len(sep) - 1) = sep
         THEN SplitOnFrom(s, sep, i + Len(sep), <<>>, Append(acc, cur))
         ELSE SplitOnFrom(s, sep, i + 1, Append(cur, s[i]), acc)

SplitOn(s, sep) == SplitOnFrom(s, sep, 1, <<>>, <<>>)

NonEmpty(s) == s # <<>>

\* [x.strip() for x in pieces if x.strip()]
StrippedNonEmpty(pieces) ==
    SelectSeq([i \in 1..Len(pieces) |-> Strip(pieces[i])], NonEmpty)

\* c.lower(), for the characters file names are built from
LowerChar(c) ==
    CASE c = "A" -> "a"
      [] c = "P" -> "p"
      [] c = "D" -> "d"
      [] c = "F" -> "f"
      [] OTHER -> c

Lower(s) == [i \in 1..Len(s) |-> LowerChar(s[i])]

EndsWith(s, suffix) ==
    /\ Len(s) >= Len(suffix)
    /\ SubSeq(s, Len(s) - Len(suffix) + 1, Len(s)) = suffix

----------------------------------------------------------------------------
(* What a request can carry *)

Endpoints == {"/extract-text", "/analyze-document"}

\* "a.pdf", "A.PDF", "a.txt", "apdf"
Filenames ==
    { <<"a", ".", "p", "d", "f">>,
      <<"A", ".", "P", "D", "F">>,
      <<"a", ".", "t", "x", "t">>,
      <<"a", "p", "d", "f">> }

Chars == {"a", NL}

\* every text of at most MaxLen characters over Chars
BoundedTexts == UNION {[1..n -> Chars] : n \in 0..MaxLen}

\* " ", " a ", "a a.", "a\n\na"
ScenarioTexts ==
    { <<" ">>,
      <<" ", "a", " ">>,
      <<"a", " ", "a", ".">>,
      <<"a", NL, NL, "a">> }

PageTexts == BoundedTexts \cup ScenarioTexts

\* what page.extract_text() does on a page: returns its text, or raises
PageOutcomes ==
    {[ok |-> TRUE, text |-> t, error |-> ""] : t \in PageTexts}
        \cup {[ok |-> FALSE, text |-> <<>>, error |-> "bad content stream"]}

PageSeqs == UNION {[1..n -> PageOutcomes] : n \in 0..MaxPages}

MetaFields ==
    {"title", "author", "subject", "creator", "producer",
     "creation_date", "modification_date"}

ADate == [year |-> 2024, month |-> 1, day |-> 2, hour |-> 3, minute |-> 4, second |-> 5]

\* pdf_reader.metadata is None (<<>>) or a DocumentInformation (<<info>>), a
\* dictionary of the /Info entries the file has
MetaInputs ==
    { <<>>,
      << [keywords |-> "k"] >>,
      << [title |-> "T", author |-> "", creation_date |-> ADate] >>,
      << [title |-> "T", author |-> "A", subject |-> "S", creator |-> "C",
          producer |-> "P", creation_date |-> ADate, modification_date |-> ADate] >> }

Unread == [kind |-> "unread", metadata |-> <<>>, pages |-> <<>>]

\* bytes PdfReader cannot parse
Garbage == [kind |-> "garbage", metadata |-> <<>>, pages |-> <<>>]

Uploads ==
    {Garbage} \cup {[kind |-> "pdf", metadata |-> m, pages |-> p] :
                        m \in MetaInputs, p \in PageSeqs}

----------------------------------------------------------------------------
(* extract_text_from_pdf *)

\* DocumentInformation's property for field k: the entry, or None (<<>>)
InfoField(info, k) == IF k \in DOMAIN info THEN <<info[k]>> ELSE <<>>

\* x or ''
OrEmpty(opt) == IF opt = <<>> THEN "" ELSE opt[1]

Pad(n, width) ==
    LET str == ToString(n)
    IN  IF width = 2 /\ n < 10 THEN "0" \o str ELSE str

\* str(d) for a datetime d
DateStr(d) ==
    ToString(d.year) \o "-" \o Pad(d.month, 2) \o "-" \o Pad(d.day, 2) \o " "
        \o Pad(d.hour, 2) \o ":" \o Pad(d.minute, 2) \o ":" \o Pad(d.second, 2)

\* str(x) if x else ''
StrOrEmpty(opt) == IF opt = <<>> THEN "" ELSE DateStr(opt[1])

\* lines 43-53: the dictionary stays {} unless pdf_reader.metadata is truthy
ExtractMetadata(meta) ==
    IF meta # <<>> /\ DOMAIN meta[1] # {}
    THEN [ title             |-> OrEmpty(InfoField(meta[1], "title")),
           author            |-> OrEmpty(InfoField(meta[1], "author")),
           subject           |-> OrEmpty(InfoField(meta[1], "subject")),
           creator           |-> OrEmpty(InfoField(meta[1], "creator")),
           producer          |-> OrEmpty(InfoField(meta[1], "producer")),
           creation_date     |-> StrOrEmpty(InfoField(meta[1], "creation_date")),
           modification_date |-> StrOrEmpty(InfoField(meta[1], "modification_date")) ]
    ELSE <<>>

\* slip: the separator is forgotten (full_text += page_text)
SeparatorMissing == <<>>

\* the page separator appended after each page's text
Separator == <<NL, NL>>

\* slip: the accumulator is assigned instead of extended (= for +=)
AppendPageTextOverwriting(full, page_text) == page_text \o <<NL, NL>>

\* full_text += page_text + "\n\n"
AppendPageText(full, page_text) == full \o page_text \o Separator

\* slip: the enumerate index is used as it is (page_num for page_num + 1)
PageSectionZeroBased(n, page_text) ==
    [ type        |-> "page",
      page_number |-> n - 1,
      content     |-> Strip(page_text),
      word_count  |-> Len(SplitWs(page_text)),
      char_count  |-> Len(page_text) ]

\* lines 65-71: the section of a page whose text was extracted
PageSection(n, page_text) ==
    [ type        |-> "page",
      page_number |-> n,
      content     |-> Strip(page_text),
      word_count  |-> Len(SplitWs(page_text)),
      char_count  |-> Len(page_text) ]

ErrorPlaceholder ==
    << "[", "E", "r", "r", "o", "r", " ", "e", "x", "t", "r", "a", "c", "t", "i", "n", "g",
       " ", "t", "e", "x", "t", " ", "f", "r", "o", "m", " ", "t", "h", "i", "s", " ",
       "p", "a", "g", "e", "]" >>

\* slip: the counts of a failed page are taken from the placeholder text
ErrorSectionCountingPlaceholder(n, e) ==
    [ type        |-> "page",
      page_number |-> n,
      content     |-> ErrorPlaceholder,
      word_count  |-> Len(SplitWs(ErrorPlaceholder)),
      char_count  |-> Len(ErrorPlaceholder),
      error       |-> e ]

\* lines 74-81: the section of a page whose extraction raised e
ErrorSection(n, e) ==
    [ type        |-> "page",
      page_number |-> n,
      content     |-> ErrorPlaceholder,
      word_count  |-> 0,
      char_count  |-> 0,
      error       |-> e ]

\* lines 83-89
ExtractionResult(full, secs, meta, pages) ==
    [ text_content |-> Strip(full),
      page_count   |-> Len(pages),
      word_count   |-> Len(SplitWs(full)),
      metadata     |-> meta,
      sections     |-> secs ]

----------------------------------------------------------------------------
(* the HTTP handlers *)

\* slip: the dot is left out of the suffix (endswith('pdf'))
EndsWithPdfNoDot(name) == EndsWith(Lower(name), <<"p", "d", "f">>)

\* file.filename.lower().endswith('.pdf')
EndsWithPdf(name) == EndsWith(Lower(name), <<".", "p", "d", "f">>)

HTTPException(status_code, detail) ==
    [status |-> status_code, detail |-> detail, body |-> <<>>]

NoResponse == [status |-> 0, detail |-> "", body |-> <<>>]

Ok(body) == [status |-> 200, detail |-> "", body |-> <<body>>]

\* line 92: what extract_text_from_pdf raises for any exception inside it
ExtractionFailed(e) == HTTPException(400, "Failed to extract text from PDF: " \o e)

\* line 158: what extract_text raises for any exception caught at line 154,
\* the HTTPException of line 92 included (HTTPException is an Exception)
ProcessingFailed(e) == HTTPException(500, "Processing failed: " \o e.detail)

\* lines 156-157: the file is removed only when temp_file_path is bound
FileAfterCleanup(bound, exists) == IF bound /\ exists THEN FALSE ELSE exists

\* lines 144-152
ExtractionResponse(name, result) ==
    [ filename     |-> name,
      text_content |-> result.text_content,
      page_count   |-> result.page_count,
      word_count   |-> result.word_count,
      metadata     |-> result.metadata,
      sections     |-> result.sections ]

\* line 174
Sentences(text) == StrippedNonEmpty(SplitOn(text, <<".">>))

\* slip: the empty pieces are not discarded (no "if p.strip()")
ParagraphsKeepingEmpty(text) ==
    LET pieces == SplitOn(text, <<NL, NL>>)
    IN  [i \in 1..Len(pieces) |-> Strip(pieces[i])]

\* line 175
Paragraphs(text) == StrippedNonEmpty(SplitOn(text, <<NL, NL>>))

\* line 186: the quotient as a fraction <<numerator, denominator>>
AvgWordsPerPage(words, pages) == IF pages > 0 THEN <<words, pages>> ELSE <<0, 1>>

\* lines 171-192
Analysis(r) ==
    [ filename     |-> r.filename,
      basic_stats  |->
          [ page_count         |-> r.page_count,
            word_count         |-> r.word_count,
            sentence_count     |-> Len(Sentences(r.text_content)),
            paragraph_count    |-> Len(Paragraphs(r.text_content)),
            avg_words_per_page |-> AvgWordsPerPage(r.word_count, r.page_count) ],
      text_content |-> r.text_content,
      metadata     |-> r.metadata,
      sections     |-> r.sections ]

----------------------------------------------------------------------------
(* The request as a state machine *)

Init ==
    /\ endpoint \in Endpoints
    /\ filename \in Filenames
    /\ pc = "validate"
    /\ content = Unread
    /\ temp_file_exists = FALSE
    /\ temp_file_path = FALSE
    /\ extractor_calls = 0
    /\ page_num = 0
    /\ full_text = <<>>
    /\ sections = <<>>
    /\ metadata = <<>>
    /\ response = NoResponse

\* lines 124-125: the request is refused before the try block
RejectFileType ==
    /\ pc = "validate"
    /\ ~EndsWithPdf(filename)
    /\ response' = HTTPException(400, "Only PDF files are supported")
    /\ pc' = "done"
    /\ UNCHANGED <<endpoint, filename, content, temp_file_exists, temp_file_path,
                   extractor_calls, page_num, full_text, sections, metadata>>

\* lines 124, 133: the file type passes and the temporary file is created
CreateTempFile ==
    /\ pc = "validate"
    /\ EndsWithPdf(filename)
    /\ temp_file_exists' = TRUE
    /\ pc' = "read_upload"
    /\ UNCHANGED <<endpoint, filename, content, temp_file_path, extractor_calls,
                   page_num, full_text, sections, metadata, response>>

\* line 134: file.read() returns the upload
ReadUpload ==
    /\ pc = "read_upload"
    /\ \E c \in Uploads : content' = c
    /\ pc' = "write_temp"
    /\ UNCHANGED <<endpoint, filename, temp_file_exists, temp_file_path, extractor_calls,
                   page_num, full_text, sections, metadata, response>>

\* lines 134-135, 154-158: file.read() or temp_file.write() raises inside the
\* with block, before line 136 binds temp_file_path
UploadFails ==
    /\ pc \in {"read_upload", "write_temp"}
    /\ temp_file_exists' = FileAfterCleanup(temp_file_path, temp_file_exists)
    /\ response' = ProcessingFailed([detail |-> "I/O error"])
    /\ pc' = "done"
    /\ UNCHANGED <<endpoint, filename, content, temp_file_path, extractor_calls,
                   page_num, full_text, sections, metadata>>

\* lines 135-136: the upload is written and temp_file_path is bound
WriteTemp ==
    /\ pc = "write_temp"
    /\ temp_file_path' = TRUE
    /\ pc' = "open_pdf"
    /\ UNCHANGED <<endpoint, filename, content, temp_file_exists, extractor_calls,
                   page_num, full_text, sections, metadata, response>>

\* lines 139, 39-40: extract_text_from_pdf is called and PdfReader parses the file
OpenPdf ==
    /\ pc = "open_pdf"
    /\ content.kind = "pdf"
    /\ extractor_calls' = extractor_calls + 1
    /\ pc' = "metadata"
    /\ UNCHANGED <<endpoint, filename, content, temp_file_exists, temp_file_path,
                   page_num, full_text, sections, metadata, response>>

\* lines 139, 39-40, 91-92, 154-158: PdfReader raises; line 92 turns it into an
\* HTTPException, which the handler of line 154 catches in its turn
OpenPdfFails ==
    /\ pc = "open_pdf"
    /\ content.kind = "garbage"
    /\ extractor_calls' = extractor_calls + 1
    /\ temp_file_exists' = FileAfterCleanup(temp_file_path, temp_file_exists)
    /\ response' = ProcessingFailed(ExtractionFailed("EOF marker not found"))
    /\ pc' = "done"
    /\ UNCHANGED <<endpoint, filename, content, temp_file_path,
                   page_num, full_text, sections, metadata>>

\* lines 43-57
ReadMetadata ==
    /\ pc = "metadata"
    /\ metadata' = ExtractMetadata(content.metadata)
    /\ full_text' = <<>>
    /\ sections' = <<>>
    /\ page_num' = 0
    /\ pc' = "pages"
    /\ UNCHANGED <<endpoint, filename, content, temp_file_exists, temp_file_path,
                   extractor_calls, response>>

\* lines 59-71: one turn of the loop, the page's text is extracted
ExtractPage ==
    /\ pc = "pages"
    /\ page_num < Len(content.pages)
    /\ content.pages[page_num + 1].ok
    /\ full_text' = AppendPageText(full_text, content.pages[page_num + 1].text)
    /\ sections' = Append(sections, PageSection(page_num + 1, content.pages[page_num + 1].text))
    /\ page_num' = page_num + 1
    /\ UNCHANGED <<endpoint, filename, pc, content, temp_file_exists, temp_file_path,
                   extractor_calls, metadata, response>>

\* lines 59-61, 72-81: one turn of the loop, page.extract_text() raises
ExtractPageFails ==
    /\ pc = "pages"
    /\ page_num < Len(content.pages)
    /\ ~content.pages[page_num + 1].ok
    /\ sections' = Append(sections, ErrorSection(page_num + 1, content.pages[page_num + 1].error))
    /\ page_num' = page_num + 1
    /\ UNCHANGED <<endpoint, filename, pc, content, temp_file_exists, temp_file_path,
                   extractor_calls, full_text, metadata, response>>

\* lines 83-89, 142-152: the loop is over; extract_text_from_pdf returns, the
\* temporary file is removed and extract_text returns its response
ReturnExtraction ==
    /\ pc = "pages"
    /\ page_num = Len(content.pages)
    /\ temp_file_exists' = FALSE
    /\ response' = Ok(ExtractionResponse(filename,
                        ExtractionResult(full_text, sections, metadata, content.pages)))
    /\ pc' = IF endpoint = "/analyze-document" THEN "analyze" ELSE "done"
    /\ UNCHANGED <<endpoint, filename, content, temp_file_path, extractor_calls,
                   page_num, full_text, sections, metadata>>

\* lines 171-194: analyze_document works on what extract_text returned
AnalyzeDocument ==
    /\ pc = "analyze"
    /\ response' = Ok(Analysis(response.body[1]))
    /\ pc' = "done"
    /\ UNCHANGED <<endpoint, filename, content, temp_file_exists, temp_file_path,
                   extractor_calls, page_num, full_text, sections, metadata>>

Next ==
    \/ RejectFileType
    \/ CreateTempFile
    \/ ReadUpload
    \/ UploadFails
    \/ WriteTemp
    \/ OpenPdf
    \/ OpenPdfFails
    \/ ReadMetadata
    \/ ExtractPage
    \/ ExtractPageFails
    \/ ReturnExtraction
    \/ AnalyzeDocument

Spec == Init /\ [][Next]_vars

----------------------------------------------------------------------------
(* Vocabulary of the properties *)

Done == pc = "done"

\* the caller has received a document: an extraction or an analysis response
Returned == Done /\ response.status = 200

Analysed == Returned /\ "basic_stats" \in DOMAIN response.body[1]

Doc == response.body[1]

DocPageCount == IF Analysed THEN Doc.basic_stats.page_count ELSE Doc.page_count

DocWordCount == IF Analysed THEN Doc.basic_stats.word_count ELSE Doc.word_count

\* the pages of the uploaded PDF, as page.extract_text() answers for them
Pages == content.pages

FailedPages == {k \in 1..Len(Pages) : ~Pages[k].ok}

GoodPages == {k \in 1..Len(Pages) : Pages[k].ok}

\* file names that end in ".pdf" whatever the case of the letters
PdfSuffixes ==
    {<<".", p, d, f>> : p \in {"p", "P"}, d \in {"d", "D"}, f \in {"f", "F"}}

HasPdfSuffix(name) ==
    Len(name) >= 4 /\ SubSeq(name, Len(name) - 3, Len(name)) \in PdfSuffixes

AllWhitespace(t) == \A j \in 1..Len(t) : t[j] \in {" ", NL}

HasDoubleNewline(t) == \E j \in 1..(Len(t) - 1) : t[j] = NL /\ t[j + 1] = NL

\* leading and trailing whitespace removed, one character at a time
RECURSIVE TrimLeft(_)
TrimLeft(t) == IF t # <<>> /\ Head(t) \in {" ", NL} THEN TrimLeft(Tail(t)) ELSE t

RECURSIVE TrimRight(_)
TrimRight(t) ==
    IF t # <<>> /\ t[Len(t)] \in {" ", NL} THEN TrimRight(SubSeq(t, 1, Len(t) - 1)) ELSE t

Trim(t) == TrimRight(TrimLeft(t))

\* number of places where a whitespace-delimited token starts
TokenCount(t) ==
    Cardinality({j \in 1..Len(t) :
        /\ t[j] \notin {" ", NL}
        /\ (j = 1 \/ t[j - 1] \in {" ", NL})})

\* the raw text of each extracted page followed by a blank line, in page order;
\* a failed page adds nothing
RECURSIVE RawConcat(_)
RawConcat(pages) ==
    IF pages = <<>> THEN <<>>
    ELSE (IF Head(pages).ok THEN Head(pages).text \o <<NL, NL>> ELSE <<>>)
             \o RawConcat(Tail(pages))

\* the page texts joined by a blank line
RECURSIVE JoinByBlankLine(_)
JoinByBlankLine(pages) ==
    IF pages = <<>> THEN <<>>
    ELSE IF Len(pages) = 1 THEN Head(pages).text
    ELSE Head(pages).text \o <<NL, NL>> \o JoinByBlankLine(Tail(pages))

RECURSIVE SumWordCounts(_)
SumWordCounts(secs) ==
    IF secs = <<>> THEN 0 ELSE Head(secs).word_count + SumWordCounts(Tail(secs))

\* the sections extract_text_from_pdf builds for a PDF with these pages
RECURSIVE SectionsOf(_, _)
SectionsOf(pages, n) ==
    IF n = 0 THEN <<>>
    ELSE Append(SectionsOf(pages, n - 1),
                IF pages[n].ok THEN PageSection(n, pages[n].text)
                               ELSE ErrorSection(n, pages[n].error))

\* the same PDF, had page k been extracted with text t
HadSucceeded(pages, k, t) ==
    [pages EXCEPT ![k] = [ok |-> TRUE, text |-> t, error |-> ""]]

----------------------------------------------------------------------------
(* The claims *)

\* C1: when the uploaded bytes cannot be parsed as a PDF, the request ends with
\* the client error 400 (InvalidDocument), not the server error 500, and no
\* document is returned.
C1_InvalidDocumentIsClientError ==
    (Done /\ content.kind = "garbage" /\ extractor_calls > 0)
        => (response.status = 400 /\ response.body = <<>>)

\* C2: when extraction of page k fails, the document is still returned; section
\* k is the placeholder with word_count 0, char_count 0 and an error
\* description; every other section is what it would be had page k been
\* extracted; and page_count counts page k.
C2_FailedPageIsIsolated ==
    /\ (Done /\ content.kind = "pdf" /\ extractor_calls > 0) => Returned
    /\ Returned =>
        \A k \in FailedPages :
            /\ k \in 1..Len(Doc.sections)
            /\ Doc.sections[k].content = ErrorPlaceholder
            /\ Doc.sections[k].word_count = 0
            /\ Doc.sections[k].char_count = 0
            /\ "error" \in DOMAIN Doc.sections[k]
            /\ Doc.sections[k].error = Pages[k].error
            /\ DocPageCount = Len(Pages)
            /\ \A t \in ScenarioTexts :
                 \A i \in (1..Len(Pages)) \ {k} :
                    Doc.sections[i] = SectionsOf(HadSucceeded(Pages, k, t), Len(Pages))[i]

C2_Witness ==
    /\ Returned
    /\ Len(Pages) = 2
    /\ FailedPages = {1}
    /\ Pages[2].text = <<"a", NL>>

\* C3: in every returned document the number of sections equals page_count and
\* the i-th section has page_number i, whether page i was extracted or failed.
C3_SectionsMatchPages ==
    Returned =>
        /\ Len(Doc.sections) = DocPageCount
        /\ DocPageCount = Len(Pages)
        /\ \A i \in 1..Len(Doc.sections) : Doc.sections[i].page_number = i

C3_Witness ==
    /\ Returned
    /\ Len(Doc.sections) = 2
    /\ FailedPages = {2}

\* C4: the metadata of every returned document has exactly the seven fields,
\* each the empty string when the PDF lacks it, also when the PDF carries no
\* metadata at all.
C4_MetadataHasSevenFields ==
    Returned =>
        /\ DOMAIN Doc.metadata = MetaFields
        /\ \A f \in MetaFields :
             (content.metadata = <<>> \/ f \notin DOMAIN content.metadata[1])
                 => Doc.metadata[f] = ""

\* C5: for every extracted page the section's content is the trimmed page text,
\* word_count the number of whitespace-delimited tokens and char_count the
\* length of the trimmed text (char_count = len(content)).
C5_SectionCountsOfTrimmedText ==
    Returned =>
        \A i \in GoodPages :
            /\ Doc.sections[i].content = Trim(Pages[i].text)
            /\ Doc.sections[i].word_count = TokenCount(Pages[i].text)
            /\ Doc.sections[i].char_count = Len(Trim(Pages[i].text))
            /\ Doc.sections[i].char_count = Len(Doc.sections[i].content)

\* C6: a request whose file name does not end in .pdf, whatever the case, never
\* gets a temporary file, never reaches extract_text_from_pdf, and ends with
\* the client error 400, on both routes.
C6_NonPdfRejectedAtBoundary ==
    ~HasPdfSuffix(filename) =>
        /\ pc \in {"validate", "done"}
        /\ ~temp_file_exists
        /\ ~temp_file_path
        /\ extractor_calls = 0
        /\ content = Unread
        /\ Done => (response.status = 400 /\ response.body = <<>>)

C6_Witness ==
    /\ Done
    /\ filename = <<"a", "p", "d", "f">>
    /\ endpoint = "/analyze-document"
    /\ response.status = 400

\* C7: text_content is the trim of the raw texts of the extracted pages, each
\* followed by a blank line, in page order; a failed page adds nothing. When
\* every page is extracted it is the trim of the page texts joined by a blank line.
C7_TextContentIsTrimmedConcat ==
    Returned =>
        /\ Doc.text_content = Trim(RawConcat(Pages))
        /\ FailedPages = {} => Doc.text_content = Trim(JoinByBlankLine(Pages))

C7_Witness ==
    /\ Returned
    /\ Len(Pages) = 2
    /\ FailedPages = {}
    /\ Pages[1].text = <<" ", "a", " ">>
    /\ Pages[2].text = <<"a", NL>>
    /\ Doc.text_content = <<"a", " ", NL, NL, "a">>

\* C8: when no page text holds a double newline of its own, paragraph_count is
\* the number of extracted pages whose text is not empty or all whitespace.
C8_ParagraphPerNonEmptyPage ==
    (Analysed /\ \A i \in GoodPages : ~HasDoubleNewline(Pages[i].text)) =>
        Doc.basic_stats.paragraph_count =
            Cardinality({i \in GoodPages : ~AllWhitespace(Pages[i].text)})

C8_Witness ==
    /\ Analysed
    /\ Len(Pages) = 2
    /\ Pages[1].ok /\ Pages[1].text = <<"a", " ", "a", ".">>
    /\ Pages[2].ok /\ Pages[2].text = <<NL>>
    /\ Doc.basic_stats.paragraph_count = 1

\* C9: the aggregate word_count is the sum of the sections' word_count: the
\* page separator neither merges nor splits tokens across pages.
C9_WordCountIsSumOfSections ==
    Returned => DocWordCount = SumWordCounts(Doc.sections)

C9_Witness ==
    /\ Returned
    /\ Len(Pages) = 2
    /\ FailedPages = {}
    /\ Pages[1].text = <<"a", "a">>
    /\ Pages[2].text = <<"a", " ", "a", ".">>
    /\ DocWordCount = 3

\* C10: when the request finishes, the temporary file it created does not exist
\* any more, whichever way the request ends.
C10_TempFileRemoved == Done => ~temp_file_exists

====
